---------------------------- MODULE Spec2Model ----------------------------
(***************************************************************************)
(* Verification model of the Advanced-Subtitle-Retimer pipeline:           *)
(*   lib/subtitle_extraction.py  stream selection and extraction staging   *)
(*   lib/subtitle_cleaning.py    cleaning rule engine and style filter     *)
(*   lib/subtitle_sync.py        batch synchronisation                     *)
(*   main.py                     pipeline orchestration                    *)
(*                                                                         *)
(* Texts and style tags are TLA+ strings, handled character by character   *)
(* with Len, SubSeq and \o.  Module files are ASCII, so every non-ASCII    *)
(* character of the source tables is written as one ASCII stand-in:        *)
(*     "["  full-width left parenthesis  (U+FF08)                          *)
(*     "]"  full-width right parenthesis (U+FF09)                          *)
(*     "h"  a hiragana character of the range U+3041..U+309E               *)
(*     "#"  the music note, "^" the wave dash, "_" the horizontal bar      *)
(* "\\" is one backslash and "\n" is one newline character.                *)
(***************************************************************************)
EXTENDS Integers, Sequences, FiniteSets, TLC

VARIABLES
    \* ---- clean_up_japanese_subs (lib/subtitle_cleaning.py)
    subtitle_files,   \* the batch: a sequence of documents, each a sequence of [id, text]
    cpc,              \* position in clean_up_japanese_subs
    scanned,          \* documents the first loop has scanned
    special_texts,    \* category -> sequence of matching texts, batch wide
    confirmIdx,       \* next entry of the clear_flags literal to evaluate
    clear_flags,      \* category -> BOOLEAN
    prompts,          \* category -> number of calls of input()
    promptLog,        \* one record per call of input(): what had happened by then
    filtered,         \* per processed document, the events lines 130-131 keep
    cleaned,          \* output documents (what subtitle.save writes), in order
    flagsUsed,        \* per output document, the flags process_subtitle_line got
    run,              \* 1: first run of the engine, 2: run over the first run's result
    firstRun          \* what the first run read, found and wrote (once run = 2)

cleanVars == <<subtitle_files, cpc, scanned, special_texts, confirmIdx, clear_flags,
               prompts, promptLog, filtered, cleaned, flagsUsed, run, firstRun>>

VARIABLES
    \* ---- get_subtitle_stream_indices (lib/subtitle_extraction.py)
    all_files_streams, \* per file, the list of raw ffprobe stream dicts
    spc,               \* position in get_subtitle_stream_indices
    fileIdx,           \* file the next call of prompt_stream_selection is for
    indices,           \* the local list indices
    codecs,            \* the local list codecs
    lastPrompt,        \* the last call of input(): the list shown and the answer
    result             \* what the function returned, NoResult before and on an error

selVars == <<all_files_streams, spc, fileIdx, indices, codecs, lastPrompt, result>>

VARIABLES
    \* ---- clean_tags (lib/subtitle_cleaning.py)
    subtitle_list,    \* the batch: a sequence of documents, each a sequence of [id, style]
    tpc,              \* position in clean_tags
    sorted_styles,    \* the ranked list: a sequence of <<style, count>>
    styles_examples,  \* style -> ids of the lines whose texts are its examples
    styles_to_keep,   \* what get_styles_to_keep returned
    styled            \* output documents, in order

styleVars == <<subtitle_list, tpc, sorted_styles, styles_examples, styles_to_keep, styled>>

VARIABLES
    \* ---- main (main.py) and the staging directories of the three stages
    ppc,              \* position in main
    found,            \* how many *.mkv, *.srt and *.ass files glob finds
    progress,         \* files the current loop has handled
    temp_dir,         \* stage -> "absent", "exists" or "removed"
    cleanup_action,   \* stage -> whether the stage has returned its cleanup lambda
    invocations,      \* stage -> calls of the cleanup lambda so far
    raised,           \* stage -> calls of the cleanup lambda that raised
    synced            \* pairs whose synced output file is in the output directory

pipeVars == <<ppc, found, progress, temp_dir, cleanup_action, invocations, raised, synced>>

vars == <<cleanVars, selVars, styleVars, pipeVars>>

-----------------------------------------------------------------------------
(* Bounds *)

MaxUnits == 3     \* text length, in units of TextUnits, of the single-line batches
MaxDocs  == 2     \* documents per corpus batch
MaxLines == 1     \* lines per corpus document
MaxFiles == 3     \* video files per batch
ChoiceBound == 3  \* the Decision Source answers an integer in -ChoiceBound..ChoiceBound
MaxPicks == 1     \* indices in one answer to the style prompt
MaxPairs == 2     \* video/subtitle files of one extension in the working directory
MaxInvocations == 2   \* calls of one cleanup action

-----------------------------------------------------------------------------
(* String helpers: Python's str and re operations, as the code uses them *)

Min(S) == CHOOSE x \in S : \A y \in S : x <= y
Max(S) == CHOOSE x \in S : \A y \in S : x >= y

Char(s, i) == SubSeq(s, i, i)

\* Python: t in s
Contains(s, t) ==
    \E i \in 1..(Len(s) - Len(t) + 1) : SubSeq(s, i, i + Len(t) - 1) = t

\* Python: s.replace(old, new), leftmost non-overlapping occurrences
RECURSIVE Replace(_, _, _)
Replace(s, old, new) ==
    IF Len(s) < Len(old) THEN s
    ELSE IF SubSeq(s, 1, Len(old)) = old
         THEN new \o Replace(SubSeq(s, Len(old) + 1, Len(s)), old, new)
         ELSE Char(s, 1) \o Replace(SubSeq(s, 2, Len(s)), old, new)

FWOpen  == "["
FWClose == "]"
Hiragana == {"h"}
SYMBOLS_TO_DELETE == {"#", "^", "_", "~"}
Whitespace == {" ", "\n", "\t"}
Categories == <<"hearing_impaired", "special_symbols", "furigana", "initial_brackets">>
CategorySet == {Categories[i] : i \in 1..Len(Categories)}

\* "." of a Python regex without DOTALL: any character but the newline
Dot(c) == c # "\n"

\* HEARING_IMPAIRED_REGEX, matched at position i: the end of the match, 0 if none.
\* ".+?" is lazy: the match ends at the first closing parenthesis that leaves
\* at least one character, none of them a newline, between the two.
HearingImpairedEnd(s, i) ==
    IF Char(s, i) # FWOpen THEN 0
    ELSE LET J == {j \in (i + 2)..Len(s) :
                      /\ Char(s, j) = FWClose
                      /\ \A k \in (i + 1)..(j - 1) : Dot(Char(s, k))}
         IN  IF J = {} THEN 0 ELSE Min(J)

\* FURIGANA_REGEX at position i: "(" one or more hiragana ")"
FuriganaEnd(s, i) ==
    IF Char(s, i) # "(" THEN 0
    ELSE LET J == {j \in (i + 2)..Len(s) :
                      /\ Char(s, j) = ")"
                      /\ \A k \in (i + 1)..(j - 1) : Char(s, k) \in Hiragana}
         IN  IF J = {} THEN 0 ELSE Min(J)

\* INITIAL_BRACKETS at position i: "^" holds at the start of the string only
\* (no re.MULTILINE), ".+" is greedy: the match ends at the last ")" reachable
\* without crossing a newline.
InitialBracketsEnd(s, i) ==
    IF i # 1 \/ Char(s, 1) # "(" THEN 0
    ELSE LET J == {j \in 3..Len(s) :
                      /\ Char(s, j) = ")"
                      /\ \A k \in 2..(j - 1) : Dot(Char(s, k))}
         IN  IF J = {} THEN 0 ELSE Max(J)

\* "|".join(map(re.escape, SYMBOLS_TO_DELETE)) at position i
SymbolEnd(s, i) == IF Char(s, i) \in SYMBOLS_TO_DELETE THEN i ELSE 0

MatchEnd(cat, s, i) ==
    CASE cat = "hearing_impaired" -> HearingImpairedEnd(s, i)
      [] cat = "special_symbols"  -> SymbolEnd(s, i)
      [] cat = "furigana"         -> FuriganaEnd(s, i)
      [] cat = "initial_brackets" -> InitialBracketsEnd(s, i)

\* re.search(regex, s)
Search(cat, s) == \E i \in 1..Len(s) : MatchEnd(cat, s, i) > 0

\* re.sub(regex, "", s): scan from the left, drop each match, resume after it
RECURSIVE SubFrom(_, _, _)
SubFrom(cat, s, i) ==
    IF i > Len(s) THEN ""
    ELSE LET e == MatchEnd(cat, s, i)
         IN  IF e > 0 THEN SubFrom(cat, s, e + 1)
             ELSE Char(s, i) \o SubFrom(cat, s, i + 1)

remove_special_texts(text, cat, clear_flag) ==
    IF clear_flag THEN SubFrom(cat, text, 1) ELSE text

\* re.sub(r"\s+", " ", s)
RECURSIVE CollapseFrom(_, _)
CollapseFrom(s, i) ==
    IF i > Len(s) THEN ""
    ELSE IF Char(s, i) \in Whitespace
         THEN LET rest == {j \in (i + 1)..Len(s) : Char(s, j) \notin Whitespace}
              IN  " " \o (IF rest = {} THEN "" ELSE CollapseFrom(s, Min(rest)))
         ELSE Char(s, i) \o CollapseFrom(s, i + 1)

CollapseWhitespace(s) == CollapseFrom(s, 1)

\* line.text.replace(r"\N", "\n").replace(r"\n", " ")
NormalizeBreaks(text) == Replace(Replace(text, "\\N", "\n"), "\\n", " ")

process_subtitle_line(text, flags) ==
    LET t0 == NormalizeBreaks(text)
        t1 == remove_special_texts(t0, "hearing_impaired", flags["hearing_impaired"])
        t2 == remove_special_texts(t1, "special_symbols", flags["special_symbols"])
        t3 == remove_special_texts(t2, "furigana", flags["furigana"])
        t4 == remove_special_texts(t3, "initial_brackets", flags["initial_brackets"])
    IN  CollapseWhitespace(t4)

\* collect_special_texts: which categories the (normalized) text of a line is filed under
LineMatches(cat, text) ==
    LET t == NormalizeBreaks(text)
    IN  IF cat = "special_symbols"
        THEN \E sym \in SYMBOLS_TO_DELETE : Contains(t, sym)
        ELSE Search(cat, t)

RECURSIVE SelectSeqBy(_, _, _)
SelectSeqBy(seq, cat, i) ==
    IF i > Len(seq) THEN <<>>
    ELSE (IF LineMatches(cat, seq[i].text)
          THEN <<NormalizeBreaks(seq[i].text)>> ELSE <<>>) \o SelectSeqBy(seq, cat, i + 1)

collect_special_texts(subtitle) ==
    [cat \in CategorySet |-> SelectSeqBy(subtitle, cat, 1)]

\* KeepLine without the watermark test
KeepLine_empty_only(text) == text # ""

\* the comprehension of lines 130-131
KeepLine(text) == text # "" /\ ~Contains(text, "NETFLIX")

RECURSIVE FilterEvents(_, _)
FilterEvents(events, i) ==
    IF i > Len(events) THEN <<>>
    ELSE (IF KeepLine(events[i].text) THEN <<events[i]>> ELSE <<>>)
         \o FilterEvents(events, i + 1)

\* SSAFile.remove_miscellaneous_events() is library code: it removes events and
\* changes none, so it is any choice of events to keep (mask), order preserved.
RECURSIVE ApplyMask(_, _, _)
ApplyMask(events, mask, i) ==
    IF i > Len(events) THEN <<>>
    ELSE (IF mask[i] THEN <<events[i]>> ELSE <<>>) \o ApplyMask(events, mask, i + 1)

ProcessDocument(subtitle, flags) ==
    FilterEvents([i \in 1..Len(subtitle) |->
                    [id |-> subtitle[i].id,
                     text |-> process_subtitle_line(subtitle[i].text, flags)]], 1)



-----------------------------------------------------------------------------
(* Stream Catalog & Selector: lib/subtitle_extraction.py *)

\* Python: s.strip()
RECURSIVE Strip(_)
Strip(s) ==
    IF s = "" THEN s
    ELSE IF Char(s, 1) \in Whitespace THEN Strip(SubSeq(s, 2, Len(s)))
    ELSE IF Char(s, Len(s)) \in Whitespace THEN Strip(SubSeq(s, 1, Len(s) - 1))
    ELSE s

\* SubtitleStream.from_ffprobe_stream
from_ffprobe_stream(stream) ==
    [index |-> stream.index,
     name  |-> IF Strip(stream.title) # "" THEN Strip(stream.title)
               ELSE IF Strip(stream.language) # "" THEN Strip(stream.language)
               ELSE "unknown",
     codec |-> stream.codec_name]

\* get_unique_streams: a Python set of SubtitleStream
get_unique_streams(file_streams) ==
    {from_ffprobe_stream(file_streams[i]) : i \in 1..Len(file_streams)}

\* list(streams): a set of objects whose hash covers two str fields iterates in an
\* order that changes with the interpreter's hash seed, so it is any order.
ListOfSet(S) ==
    {f \in [1..Cardinality(S) -> S] : \A i, j \in 1..Cardinality(S) : f[i] = f[j] => i = j}

\* Python: 0 <= choice < len(seq), or -len(seq) <= choice < 0 counted from the end
InIndexRange(seq, choice) == -Len(seq) <= choice /\ choice < Len(seq)

PyIndex(seq, choice) == IF choice < 0 THEN seq[Len(seq) + choice + 1] ELSE seq[choice + 1]

\* The streams ffprobe reports; a track index occurs once per file.
RawStreams ==
    {[index |-> 2, codec_name |-> "ass", title |-> "", language |-> "jpn"],
     [index |-> 3, codec_name |-> "srt", title |-> " ", language |-> "eng"]}

FileStreamLists == UNION {ListOfSet(S) : S \in SUBSET RawStreams}

Batches == UNION {[1..n -> FileStreamLists] : n \in 0..MaxFiles}

Choices == (-ChoiceBound)..ChoiceBound

NoPrompt == [asked |-> FALSE, streams |-> <<>>, choice |-> 0]
NoResult == [returned |-> FALSE, indices |-> <<>>, codecs |-> <<>>]
Returned(ix, cs) == [returned |-> TRUE, indices |-> ix, codecs |-> cs]

AllSingle(files)  == \A i \in 1..Len(files) : Len(files[i]) = 1
AllSameLen(files) == \A i \in 1..Len(files) : Len(files[i]) = Len(files[1])

\* line 88: the comprehension of the uniform-trivial case
TrivialResult(files) ==
    Returned([i \in 1..Len(files) |-> files[i][1].index],
             [i \in 1..Len(files) |-> files[i][1].codec_name])

\* [selected.index] * len(all_files_streams) without the multiplication
Broadcast_once(selected, n) == Returned(<<selected.index>>, <<selected.codec>>)

\* lines 94-95
Broadcast(selected, n) ==
    Returned([i \in 1..n |-> selected.index], [i \in 1..n |-> selected.codec])

\* lines 83-97 up to the first call of prompt_stream_selection
SelectStart ==
    /\ spc = "start"
    /\ \/ /\ all_files_streams = <<>>
          /\ spc' = "error"
          /\ UNCHANGED result
       \/ /\ all_files_streams # <<>>
          /\ AllSingle(all_files_streams)
          /\ spc' = "done"
          /\ result' = TrivialResult(all_files_streams)
       \/ /\ all_files_streams # <<>>
          /\ ~AllSingle(all_files_streams)
          /\ spc' = IF AllSameLen(all_files_streams) THEN "uniform" ELSE "per_file"
          /\ UNCHANGED result
    /\ fileIdx' = 1
    /\ UNCHANGED <<all_files_streams, indices, codecs, lastPrompt, cleanVars, styleVars, pipeVars>>

\* prompt_stream_selection (lines 70-78) on list(streams), for file f: every way
\* the call can go.  One stream is returned without asking; otherwise the list is
\* shown, the Decision Source answers, and streams[choice] is returned or raises
\* IndexError (selected is then the raw answer, never used).
prompt_stream_selection(f) ==
    UNION {IF Len(streams) = 1
           THEN {[asked |-> FALSE, streams |-> streams, choice |-> 0,
                  raises |-> FALSE, selected |-> streams[1]]}
           ELSE {[asked |-> TRUE, streams |-> streams, choice |-> choice,
                  raises |-> ~InIndexRange(streams, choice),
                  selected |-> IF InIndexRange(streams, choice)
                               THEN PyIndex(streams, choice) ELSE choice] :
                  choice \in Choices}
           : streams \in ListOfSet(get_unique_streams(all_files_streams[f]))}

Prompted(call) ==
    lastPrompt' = IF call.asked
                  THEN [asked |-> TRUE, streams |-> call.streams, choice |-> call.choice]
                  ELSE lastPrompt

\* lines 91-95
SelectUniform ==
    /\ spc = "uniform"
    /\ \E call \in prompt_stream_selection(1) :
          /\ Prompted(call)
          /\ IF call.raises
             THEN spc' = "error" /\ UNCHANGED result
             ELSE /\ result' = Broadcast(call.selected, Len(all_files_streams))
                  /\ spc' = "done"
    /\ UNCHANGED <<all_files_streams, indices, codecs, fileIdx,
                   cleanVars, styleVars, pipeVars>>

\* lines 100-106: one turn of the loop, and the return after the last one
SelectPerFile ==
    /\ spc = "per_file"
    /\ \E call \in prompt_stream_selection(fileIdx) :
          /\ Prompted(call)
          /\ IF call.raises
             THEN spc' = "error" /\ UNCHANGED <<indices, codecs, result, fileIdx>>
             ELSE /\ indices' = Append(indices, call.selected.index)
                  /\ codecs' = Append(codecs, call.selected.codec)
                  /\ IF fileIdx = Len(all_files_streams)
                     THEN /\ spc' = "done"
                          /\ result' = Returned(Append(indices, call.selected.index),
                                                Append(codecs, call.selected.codec))
                          /\ UNCHANGED fileIdx
                     ELSE /\ fileIdx' = fileIdx + 1
                          /\ UNCHANGED <<spc, result>>
    /\ UNCHANGED <<all_files_streams, cleanVars, styleVars, pipeVars>>

-----------------------------------------------------------------------------
(* clean_up_japanese_subs as a state machine *)

NoFlags   == [cat \in CategorySet |-> FALSE]
NoMatches == [cat \in CategorySet |-> <<>>]
NoRun     == [input |-> <<>>, special |-> NoMatches, filtered |-> <<>>, output |-> <<>>]

\* Input texts.  A unit is a character or a marker of the subtitle format; "ETFLIX"
\* is kept whole because no pattern of the engine looks at any of its letters.
TextUnits == {"\\N", "\\n", "N", "ETFLIX", "[", "]", "(", ")", "h", "#"}

RECURSIVE Texts(_)
Texts(n) ==
    IF n = 0 THEN {""}
    ELSE LET shorter == Texts(n - 1)
         IN  shorter \cup {t \o u : t \in shorter, u \in TextUnits}

\* A small corpus for the batches of several documents: a line with a
\* hearing-impaired span and a symbol, and a watermark that matches no category.
Corpus == {"[N]#h", "NETFLIX"}

SeqsUpTo(S, n) == UNION {[1..k -> S] : k \in 0..n}

Numbered(texts) == [i \in 1..Len(texts) |-> [id |-> i, text |-> texts[i]]]

SingleLineBatches == {<<Numbered(<<t>>)>> : t \in Texts(MaxUnits)}

CorpusDocuments == {Numbered(ts) : ts \in SeqsUpTo(Corpus, MaxLines)}

CorpusBatches == UNION {[1..k -> CorpusDocuments] : k \in 1..MaxDocs}

CleanStart(batch) ==
    /\ subtitle_files = batch
    /\ cpc = "scan"
    /\ scanned = 0
    /\ special_texts = NoMatches
    /\ confirmIdx = 1
    /\ clear_flags = NoFlags
    /\ prompts = [cat \in CategorySet |-> 0]
    /\ promptLog = <<>>
    /\ filtered = <<>>
    /\ cleaned = <<>>
    /\ flagsUsed = <<>>

\* lines 106-110: load one file, collect its matches, extend the batch-wide lists
ScanFile ==
    /\ cpc = "scan"
    /\ scanned < Len(subtitle_files)
    /\ LET file_special_texts == collect_special_texts(subtitle_files[scanned + 1])
       IN  special_texts' = [cat \in CategorySet |-> special_texts[cat] \o file_special_texts[cat]]
    /\ scanned' = scanned + 1
    /\ cpc' = IF scanned + 1 = Len(subtitle_files) THEN "confirm" ELSE "scan"
    /\ UNCHANGED <<subtitle_files, confirmIdx, clear_flags, prompts, promptLog,
                   filtered, cleaned, flagsUsed, run, firstRun, selVars, styleVars, pipeVars>>

\* user_confirmation without the early return of lines 36-37
user_confirmation_always_asks ==
    /\ cpc = "confirm"
    /\ \E response \in BOOLEAN :
          clear_flags' = [clear_flags EXCEPT ![Categories[confirmIdx]] = response]
    /\ prompts' = [prompts EXCEPT ![Categories[confirmIdx]] = @ + 1]
    /\ promptLog' = Append(promptLog,
                           [category |-> Categories[confirmIdx], scanned |-> scanned,
                            saved |-> Len(cleaned)])
    /\ confirmIdx' = confirmIdx + 1
    /\ cpc' = IF confirmIdx = Len(Categories) THEN "process" ELSE "confirm"
    /\ UNCHANGED <<subtitle_files, scanned, special_texts, filtered, cleaned,
                   flagsUsed, run, firstRun, selVars, styleVars, pipeVars>>

\* lines 33-45 as called from lines 113-122, one entry of the dict literal at a
\* time.  response is what input() returned, reduced to response != 'n'.
user_confirmation ==
    /\ cpc = "confirm"
    /\ LET cat == Categories[confirmIdx]
       IN  \/ /\ special_texts[cat] = <<>>
              /\ clear_flags' = [clear_flags EXCEPT ![cat] = FALSE]
              /\ UNCHANGED <<prompts, promptLog>>
           \/ /\ special_texts[cat] # <<>>
              /\ \E response \in BOOLEAN :
                    clear_flags' = [clear_flags EXCEPT ![cat] = response]
              /\ prompts' = [prompts EXCEPT ![cat] = @ + 1]
              /\ promptLog' = Append(promptLog,
                                     [category |-> cat, scanned |-> scanned,
                                      saved |-> Len(cleaned)])
    /\ confirmIdx' = confirmIdx + 1
    /\ cpc' = IF confirmIdx = Len(Categories) THEN "process" ELSE "confirm"
    /\ UNCHANGED <<subtitle_files, scanned, special_texts, filtered, cleaned,
                   flagsUsed, run, firstRun, selVars, styleVars, pipeVars>>

\* lines 125-137: reload one file, process every line, filter, save
ProcessFile ==
    /\ cpc = "process"
    /\ Len(cleaned) < Len(subtitle_files)
    /\ LET events == ProcessDocument(subtitle_files[Len(cleaned) + 1], clear_flags)
       IN  /\ filtered' = Append(filtered, events)
           /\ \E mask \in [1..Len(events) -> BOOLEAN] :
                 cleaned' = Append(cleaned, ApplyMask(events, mask, 1))
    /\ flagsUsed' = Append(flagsUsed, clear_flags)
    /\ cpc' = IF Len(cleaned) + 1 = Len(subtitle_files) THEN "done" ELSE "process"
    /\ UNCHANGED <<subtitle_files, scanned, special_texts, confirmIdx, clear_flags,
                   prompts, promptLog, run, firstRun, selVars, styleVars, pipeVars>>

\* clean_up_japanese_subs called again, on the documents the first call returned
Rerun ==
    /\ cpc = "done"
    /\ run = 1
    /\ firstRun' = [input |-> subtitle_files, special |-> special_texts,
                    filtered |-> filtered, output |-> cleaned]
    /\ run' = 2
    /\ subtitle_files' = cleaned
    /\ cpc' = "scan"
    /\ scanned' = 0
    /\ special_texts' = NoMatches
    /\ confirmIdx' = 1
    /\ clear_flags' = NoFlags
    /\ prompts' = [cat \in CategorySet |-> 0]
    /\ promptLog' = <<>>
    /\ filtered' = <<>>
    /\ cleaned' = <<>>
    /\ flagsUsed' = <<>>
    /\ UNCHANGED <<selVars, styleVars, pipeVars>>


-----------------------------------------------------------------------------
(* Style Filter: analyze_subtitle_styles, get_styles_to_keep, clean_tags *)

TAGS_TO_IGNORE_AUTO ==
    {"Signs", "Caption", "Song", "ED", "OP", "Opening", "Ending", "Karaoke"}

\* line 151 with an exact comparison in place of the substring test
SkipsStyle_exact(style) == style \in TAGS_TO_IGNORE_AUTO

\* line 151: any(tag in line.style for tag in TAGS_TO_IGNORE_AUTO)
SkipsStyle(style) == \E tag \in TAGS_TO_IGNORE_AUTO : Contains(style, tag)

\* every line of the batch in the order the two loops of lines 148-150 visit them
RECURSIVE AllLines(_, _)
AllLines(batch, j) ==
    IF j > Len(batch) THEN <<>> ELSE batch[j] \o AllLines(batch, j + 1)

\* the lines that reach line 154
RECURSIVE Counted(_, _)
Counted(lines, i) ==
    IF i > Len(lines) THEN <<>>
    ELSE (IF SkipsStyle(lines[i].style) THEN <<>> ELSE <<lines[i]>>)
         \o Counted(lines, i + 1)

\* styles_counts: keys in insertion order, and the count of each
FirstSeen(lines, style) == Min({i \in 1..Len(lines) : lines[i].style = style})
StyleCount(lines, style) == Cardinality({i \in 1..Len(lines) : lines[i].style = style})
StyleKeys(lines) == {lines[i].style : i \in 1..Len(lines)}

\* sorted(styles_counts.items(), key=lambda x: x[1], reverse=True): descending by
\* count, and stable, so equal counts stay in insertion order
RankOf(lines, style) ==
    1 + Cardinality({t \in StyleKeys(lines) :
            \/ StyleCount(lines, t) > StyleCount(lines, style)
            \/ /\ StyleCount(lines, t) = StyleCount(lines, style)
               /\ FirstSeen(lines, t) < FirstSeen(lines, style)})

SortedStyles(lines) ==
    [r \in 1..Cardinality(StyleKeys(lines)) |->
        LET style == CHOOSE t \in StyleKeys(lines) : RankOf(lines, t) = r
        IN  <<style, StyleCount(lines, style)>>]

\* styles_examples: per style the first lines of it, five at most (lines 155-158)
RECURSIVE ExamplesOf(_, _, _)
ExamplesOf(lines, style, i) ==
    IF i > Len(lines) THEN <<>>
    ELSE LET rest == ExamplesOf(lines, style, i + 1)
         IN  IF lines[i].style = style THEN <<lines[i].id>> \o rest ELSE rest

StyleExamples(lines) ==
    [style \in StyleKeys(lines) |->
        LET all == ExamplesOf(lines, style, 1)
        IN  SubSeq(all, 1, IF Len(all) < 5 THEN Len(all) ELSE 5)]

\* lines 194-195
RECURSIVE KeepStyled(_, _, _)
KeepStyled(events, keep, i) ==
    IF i > Len(events) THEN <<>>
    ELSE (IF \E k \in 1..Len(keep) : keep[k] = events[i].style
          THEN <<events[i]>> ELSE <<>>) \o KeepStyled(events, keep, i + 1)

StyleTags == {"Main", "Top", "Signs - Main"}

StyledDocuments ==
    {[i \in 1..Len(ts) |-> [id |-> i, style |-> ts[i]]] : ts \in SeqsUpTo(StyleTags, MaxLines)}

StyledBatches == UNION {[1..k -> StyledDocuments] : k \in 1..MaxDocs}

\* what input() returns at line 171, split: <<>> is the empty answer
UserInputs == SeqsUpTo(Choices, MaxPicks)

\* line 189
analyze_subtitle_styles ==
    /\ tpc = "analyze"
    /\ LET lines == Counted(AllLines(subtitle_list, 1), 1)
       IN  /\ sorted_styles' = SortedStyles(lines)
           /\ styles_examples' = StyleExamples(lines)
    /\ tpc' = "choose"
    /\ UNCHANGED <<subtitle_list, styles_to_keep, styled, cleanVars, selVars, pipeVars>>

\* lines 163-180 called at line 190; an IndexError leaves clean_tags through the
\* except clause of lines 208-210, which raises it again
get_styles_to_keep ==
    /\ tpc = "choose"
    /\ \E tag_indices \in UserInputs :
          \/ /\ tag_indices = <<>>
             /\ styles_to_keep' = [i \in 1..Len(sorted_styles) |-> sorted_styles[i][1]]
             /\ tpc' = "filter"
          \/ /\ tag_indices # <<>>
             /\ \A k \in 1..Len(tag_indices) : InIndexRange(sorted_styles, tag_indices[k])
             /\ styles_to_keep' = [k \in 1..Len(tag_indices) |->
                                      PyIndex(sorted_styles, tag_indices[k])[1]]
             /\ tpc' = "filter"
          \/ /\ tag_indices # <<>>
             /\ \E k \in 1..Len(tag_indices) : ~InIndexRange(sorted_styles, tag_indices[k])
             /\ tpc' = "error"
             /\ UNCHANGED styles_to_keep
    /\ UNCHANGED <<subtitle_list, sorted_styles, styles_examples, styled, cleanVars, selVars, pipeVars>>

\* lines 192-204: one turn of the loop
FilterFile ==
    /\ tpc = "filter"
    /\ Len(styled) < Len(subtitle_list)
    /\ LET events == KeepStyled(subtitle_list[Len(styled) + 1], styles_to_keep, 1)
       IN  \E mask \in [1..Len(events) -> BOOLEAN] :
              styled' = Append(styled, ApplyMask(events, mask, 1))
    /\ tpc' = IF Len(styled) + 1 = Len(subtitle_list) THEN "done" ELSE "filter"
    /\ UNCHANGED <<subtitle_list, sorted_styles, styles_examples, styles_to_keep,
                   cleanVars, selVars, pipeVars>>

-----------------------------------------------------------------------------
(* Staging directories and the pipeline of main.py *)

Stages == {"extract_subtitles", "clean_tags", "clean_up_japanese_subs"}

\* tempfile.mkdtemp(prefix=...) at the top of a stage
mkdtemp(stage) == temp_dir' = [temp_dir EXCEPT ![stage] = "exists"]

\* the lambda a stage returns, lambda: shutil.rmtree(temp_dir): rmtree removes an
\* existing directory and raises FileNotFoundError for a missing one
rmtree(stage) ==
    /\ invocations' = [invocations EXCEPT ![stage] = @ + 1]
    /\ IF temp_dir[stage] = "exists"
       THEN /\ temp_dir' = [temp_dir EXCEPT ![stage] = "removed"]
            /\ UNCHANGED raised
       ELSE /\ raised' = [raised EXCEPT ![stage] = @ + 1]
            /\ UNCHANGED temp_dir

\* ---- a stage called on its own, and its cleanup action called by the caller

\* the stage runs: it creates its directory, then returns the lambda or ends in
\* an error (sys.exit in run_command, an exception of pysubs2 or of input())
RunStage(stage) ==
    /\ ppc = "harness"
    /\ temp_dir[stage] = "absent"
    /\ mkdtemp(stage)
    /\ \E ok \in BOOLEAN : cleanup_action' = [cleanup_action EXCEPT ![stage] = ok]
    /\ UNCHANGED <<ppc, found, progress, invocations, raised, synced,
                   cleanVars, selVars, styleVars>>

InvokeCleanup(stage) ==
    /\ ppc = "harness"
    /\ cleanup_action[stage]
    /\ invocations[stage] < MaxInvocations
    /\ rmtree(stage)
    /\ UNCHANGED <<ppc, found, progress, cleanup_action, synced,
                   cleanVars, selVars, styleVars>>

\* ---- main

Pairs == found.mkv

\* lines 12-27
Discover ==
    /\ ppc = "discover"
    /\ LET targets == IF found.mkv # found.srt THEN found.srt + found.ass ELSE found.srt
       IN  ppc' = IF found.mkv # targets THEN "aborted" ELSE "probe"
    /\ UNCHANGED <<found, progress, temp_dir, cleanup_action, invocations, raised, synced,
                   cleanVars, selVars, styleVars>>

\* line 29: ffprobe on one file; run_command exits the process on a failure
Probe ==
    /\ ppc = "probe"
    /\ progress < Pairs
    /\ \E ok \in BOOLEAN :
          IF ok THEN ppc' = "probe" /\ progress' = progress + 1
                ELSE ppc' = "aborted" /\ UNCHANGED progress
    /\ UNCHANGED <<found, temp_dir, cleanup_action, invocations, raised, synced,
                   cleanVars, selVars, styleVars>>

\* lines 30-31: get_subtitle_stream_indices returns or raises (ValueError for no
\* file, IndexError or ValueError for an answer)
Select ==
    /\ ppc = "probe"
    /\ progress = Pairs
    /\ \E ok \in BOOLEAN :
          ppc' = IF Pairs > 0 /\ ok THEN "extract" ELSE "aborted"
    /\ progress' = 0
    /\ UNCHANGED <<found, temp_dir, cleanup_action, invocations, raised, synced,
                   cleanVars, selVars, styleVars>>

\* lines 33-34, extract_subtitles: mkdtemp on entry, then mkvextract per file
Extract ==
    /\ ppc = "extract"
    /\ IF temp_dir["extract_subtitles"] = "absent"
       THEN /\ mkdtemp("extract_subtitles")
            /\ UNCHANGED <<ppc, progress, cleanup_action>>
       ELSE /\ UNCHANGED temp_dir
            /\ IF progress < Pairs
               THEN /\ \E ok \in BOOLEAN :
                          IF ok THEN ppc' = "extract" /\ progress' = progress + 1
                                ELSE ppc' = "aborted" /\ UNCHANGED progress
                    /\ UNCHANGED cleanup_action
               ELSE /\ cleanup_action' = [cleanup_action EXCEPT !["extract_subtitles"] = TRUE]
                    /\ ppc' = "clean_tags"
                    /\ progress' = 0
    /\ UNCHANGED <<found, invocations, raised, synced, cleanVars, selVars, styleVars>>

\* line 36, clean_tags: mkdtemp, then the try block; the except clause of lines
\* 208-210 raises again and leaves the directory
CleanTags ==
    /\ ppc = "clean_tags"
    /\ mkdtemp("clean_tags")
    /\ \E ok \in BOOLEAN :
          IF ok THEN /\ cleanup_action' = [cleanup_action EXCEPT !["clean_tags"] = TRUE]
                     /\ ppc' = "clean_up_japanese_subs"
                ELSE /\ ppc' = "aborted"
                     /\ UNCHANGED cleanup_action
    /\ UNCHANGED <<found, progress, invocations, raised, synced,
                   cleanVars, selVars, styleVars>>

\* line 37, clean_up_japanese_subs: mkdtemp, then loads, prompts and saves
CleanJapanese ==
    /\ ppc = "clean_up_japanese_subs"
    /\ mkdtemp("clean_up_japanese_subs")
    /\ \E ok \in BOOLEAN :
          IF ok THEN /\ cleanup_action' = [cleanup_action EXCEPT
                                              !["clean_up_japanese_subs"] = TRUE]
                     /\ ppc' = "sync"
                ELSE /\ ppc' = "aborted"
                     /\ UNCHANGED cleanup_action
    /\ UNCHANGED <<found, progress, invocations, raised, synced,
                   cleanVars, selVars, styleVars>>

\* sync_subtitle: alass writes output_path; a nonzero exit ends the process in
\* run_command (sys.exit(1))
sync_subtitle(pair, ok) ==
    IF ok THEN /\ synced' = synced \cup {pair}
               /\ progress' = pair
               /\ ppc' = "sync"
          ELSE /\ ppc' = "aborted"
               /\ UNCHANGED <<synced, progress>>

\* line 38, sync_subtitles: one turn of the loop, or the return after the last
sync_subtitles ==
    /\ ppc = "sync"
    /\ IF progress < Pairs
       THEN \E ok \in BOOLEAN : sync_subtitle(progress + 1, ok)
       ELSE ppc' = "cleanup_extracted_subs" /\ UNCHANGED <<synced, progress>>
    /\ UNCHANGED <<found, temp_dir, cleanup_action, invocations, raised,
                   cleanVars, selVars, styleVars>>

\* lines 40-42
Cleanup ==
    /\ \/ /\ ppc = "cleanup_extracted_subs"
          /\ rmtree("extract_subtitles")
          /\ ppc' = "cleanup_cleaned_reference_subs"
       \/ /\ ppc = "cleanup_cleaned_reference_subs"
          /\ rmtree("clean_tags")
          /\ ppc' = "cleanup_cleaned_target_subs"
       \/ /\ ppc = "cleanup_cleaned_target_subs"
          /\ rmtree("clean_up_japanese_subs")
          /\ ppc' = "done"
    /\ UNCHANGED <<found, progress, cleanup_action, synced, cleanVars, selVars, styleVars>>

-----------------------------------------------------------------------------
(* Specifications: one per component, the other components at rest *)

CleanIdle ==
    /\ subtitle_files = <<>>
    /\ cpc = "idle"
    /\ scanned = 0
    /\ special_texts = NoMatches
    /\ confirmIdx = 1
    /\ clear_flags = NoFlags
    /\ prompts = [cat \in CategorySet |-> 0]
    /\ promptLog = <<>>
    /\ filtered = <<>>
    /\ cleaned = <<>>
    /\ flagsUsed = <<>>
    /\ run = 0
    /\ firstRun = NoRun

SelIdle ==
    /\ all_files_streams = <<>>
    /\ spc = "idle"
    /\ fileIdx = 0
    /\ indices = <<>>
    /\ codecs = <<>>
    /\ lastPrompt = NoPrompt
    /\ result = NoResult

StyleIdle ==
    /\ subtitle_list = <<>>
    /\ tpc = "idle"
    /\ sorted_styles = <<>>
    /\ styles_examples = <<>>
    /\ styles_to_keep = <<>>
    /\ styled = <<>>

PipeRest ==
    /\ progress = 0
    /\ temp_dir = [stage \in Stages |-> "absent"]
    /\ cleanup_action = [stage \in Stages |-> FALSE]
    /\ invocations = [stage \in Stages |-> 0]
    /\ raised = [stage \in Stages |-> 0]
    /\ synced = {}

PipeIdle ==
    /\ ppc = "idle"
    /\ found = [mkv |-> 0, srt |-> 0, ass |-> 0]
    /\ PipeRest

InitClean ==
    /\ \E batch \in SingleLineBatches \cup CorpusBatches : CleanStart(batch)
    /\ run = 1
    /\ firstRun = NoRun
    /\ SelIdle
    /\ StyleIdle
    /\ PipeIdle

NextClean == ScanFile \/ user_confirmation \/ ProcessFile

SpecClean == InitClean /\ [][NextClean]_vars

\* The engine run twice: the second run reads what the first one wrote.
InitCleanTwice ==
    /\ \E batch \in SingleLineBatches : CleanStart(batch)
    /\ run = 1
    /\ firstRun = NoRun
    /\ SelIdle
    /\ StyleIdle
    /\ PipeIdle

NextCleanTwice == ScanFile \/ user_confirmation \/ ProcessFile \/ Rerun

SpecCleanTwice == InitCleanTwice /\ [][NextCleanTwice]_vars

InitSelect ==
    /\ all_files_streams \in Batches
    /\ spc = "start"
    /\ fileIdx = 0
    /\ indices = <<>>
    /\ codecs = <<>>
    /\ lastPrompt = NoPrompt
    /\ result = NoResult
    /\ CleanIdle
    /\ StyleIdle
    /\ PipeIdle

NextSelect == SelectStart \/ SelectUniform \/ SelectPerFile

SpecSelect == InitSelect /\ [][NextSelect]_vars

InitStyle ==
    /\ subtitle_list \in StyledBatches
    /\ tpc = "analyze"
    /\ sorted_styles = <<>>
    /\ styles_examples = <<>>
    /\ styles_to_keep = <<>>
    /\ styled = <<>>
    /\ CleanIdle
    /\ SelIdle
    /\ PipeIdle

NextStyle == analyze_subtitle_styles \/ get_styles_to_keep \/ FilterFile

SpecStyle == InitStyle /\ [][NextStyle]_vars

InitPipeline ==
    /\ ppc = "discover"
    /\ found \in [mkv : 0..MaxPairs, srt : 0..MaxPairs, ass : 0..MaxPairs]
    /\ PipeRest
    /\ CleanIdle
    /\ SelIdle
    /\ StyleIdle

NextPipeline ==
    \/ Discover \/ Probe \/ Select \/ Extract \/ CleanTags \/ CleanJapanese
    \/ sync_subtitles \/ Cleanup

SpecPipeline == InitPipeline /\ [][NextPipeline]_vars

InitStaging ==
    /\ ppc = "harness"
    /\ found = [mkv |-> 0, srt |-> 0, ass |-> 0]
    /\ PipeRest
    /\ CleanIdle
    /\ SelIdle
    /\ StyleIdle

NextStaging == \E stage \in Stages : RunStage(stage) \/ InvokeCleanup(stage)

SpecStaging == InitStaging /\ [][NextStaging]_vars

-----------------------------------------------------------------------------
(* Properties of the cleaning rule engine *)

Ids(doc) == {doc[i].id : i \in 1..Len(doc)}

TextOf(doc, id) == (CHOOSE l \in {doc[i] : i \in 1..Len(doc)} : l.id = id).text

ZeroMatches(cat) ==
    \A j \in 1..Len(subtitle_files) : \A i \in 1..Len(subtitle_files[j]) :
        ~LineMatches(cat, subtitle_files[j][i].text)

MatchesNoCategory(text) == \A cat \in CategorySet : ~LineMatches(cat, text)

\* C9: in one run over N documents the Decision Source is asked at most once per
\* category, only after all N documents were scanned and before any document is
\* processed; a category without a match in the batch is not asked about and its
\* decision is remove = FALSE; every processed document is the result of
\* process_subtitle_line under the same four decisions.
OneDecisionPerCategory ==
    /\ \A cat \in CategorySet : prompts[cat] <= 1
    /\ \A k \in 1..Len(promptLog) :
          /\ promptLog[k].scanned = Len(subtitle_files)
          /\ promptLog[k].saved = 0
    /\ \A i \in 1..(confirmIdx - 1) :
          (prompts[Categories[i]] # 0 \/ clear_flags[Categories[i]])
              => ~ZeroMatches(Categories[i])
    /\ \A j \in 1..Len(flagsUsed) : flagsUsed[j] = clear_flags
    /\ \A j \in 1..Len(filtered) :
          filtered[j] = ProcessDocument(subtitle_files[j], clear_flags)

\* C9 witness: a batch of two documents is done, one category was asked about and
\* answered "remove", another had no match, and a line came out changed.
OneDecisionWitness ==
    /\ cpc = "done"
    /\ Len(subtitle_files) >= 2
    /\ \E cat \in CategorySet : prompts[cat] = 1 /\ clear_flags[cat]
    /\ \E cat \in CategorySet : ZeroMatches(cat) /\ prompts[cat] = 0
    /\ \E j \in 1..Len(filtered) : \E i \in 1..Len(filtered[j]) :
          filtered[j][i].text # TextOf(subtitle_files[j], filtered[j][i].id)

\* C10 as stated: whatever the four decisions, an input line whose text contains
\* "NETFLIX" is absent from the output documents.
WatermarkDropOfInputText ==
    \A j \in 1..Len(cleaned) : \A i \in 1..Len(subtitle_files[j]) :
        Contains(subtitle_files[j][i].text, "NETFLIX")
            => subtitle_files[j][i].id \notin Ids(cleaned[j])

\* C10 amended: whatever the four decisions, a line whose text contains "NETFLIX"
\* once process_subtitle_line has run on it is absent from the output documents,
\* and no output line contains "NETFLIX".
WatermarkDropOfProcessedText ==
    \A j \in 1..Len(cleaned) :
        /\ \A i \in 1..Len(subtitle_files[j]) :
              Contains(process_subtitle_line(subtitle_files[j][i].text, flagsUsed[j]),
                       "NETFLIX")
                  => subtitle_files[j][i].id \notin Ids(cleaned[j])
        /\ \A i \in 1..Len(cleaned[j]) : ~Contains(cleaned[j][i].text, "NETFLIX")

\* C10 witness: a run with a "remove" decision is done; a line that matched no
\* category and carries the watermark is gone, a line of another document is kept.
WatermarkDropWitness ==
    /\ cpc = "done"
    /\ \E cat \in CategorySet : clear_flags[cat]
    /\ \E j \in 1..Len(subtitle_files) : \E i \in 1..Len(subtitle_files[j]) :
          /\ Contains(subtitle_files[j][i].text, "NETFLIX")
          /\ MatchesNoCategory(subtitle_files[j][i].text)
          /\ subtitle_files[j][i].id \notin Ids(cleaned[j])
    /\ \E j \in 1..Len(cleaned) : cleaned[j] # <<>>

\* C8: when no line of a document matched a category, the first run changed the
\* texts only by converting the markers and collapsing whitespace, and a second
\* run of the engine over the result changes and drops nothing.
CleanInputIdempotent ==
    (run = 2 /\ cpc = "done" /\ firstRun.special = NoMatches) =>
        /\ \A j \in 1..Len(firstRun.filtered) : \A i \in 1..Len(firstRun.filtered[j]) :
              firstRun.filtered[j][i].text =
                  CollapseWhitespace(NormalizeBreaks(
                      TextOf(firstRun.input[j], firstRun.filtered[j][i].id)))
        /\ \A j \in 1..Len(filtered) : filtered[j] = subtitle_files[j]

-----------------------------------------------------------------------------
(* Properties of the stream selector *)

IsUniformMulti ==
    /\ all_files_streams # <<>>
    /\ AllSameLen(all_files_streams)
    /\ Len(all_files_streams[1]) > 1

IsHeterogeneous == all_files_streams # <<>> /\ ~AllSameLen(all_files_streams)

\* the batch of the example: 3 files, each exposing (2,"jpn","ass") and (3,"eng","srt")
ExampleBatch ==
    [i \in 1..3 |->
        <<[index |-> 2, codec_name |-> "ass", title |-> "", language |-> "jpn"],
          [index |-> 3, codec_name |-> "srt", title |-> " ", language |-> "eng"]>>]

\* C1: in the uniform-multi case the function asks the Decision Source once and
\* every file gets the index and codec of the descriptor shown at the chosen
\* index; for the example batch and the chosen index 0 that is (2, "ass").
UniformMultiBroadcast ==
    (spc = "done" /\ IsUniformMulti) =>
        /\ lastPrompt.asked
        /\ Len(result.indices) = Len(all_files_streams)
        /\ Len(result.codecs) = Len(all_files_streams)
        /\ lastPrompt.choice \in 0..(Len(lastPrompt.streams) - 1) =>
              \A i \in 1..Len(all_files_streams) :
                  /\ result.indices[i] = lastPrompt.streams[lastPrompt.choice + 1].index
                  /\ result.codecs[i] = lastPrompt.streams[lastPrompt.choice + 1].codec
        /\ (all_files_streams = ExampleBatch /\ lastPrompt.choice = 0) =>
              \A i \in 1..3 : result.indices[i] = 2 /\ result.codecs[i] = "ass"

\* the descriptors file i's result may come from
Candidates(i) ==
    IF IsUniformMulti THEN get_unique_streams(all_files_streams[1])
    ELSE get_unique_streams(all_files_streams[i])

\* C2: whenever get_subtitle_stream_indices returns, in the uniform-trivial, the
\* uniform-multi and the heterogeneous case alike, the index list and the codec
\* list are as long as the file list, and position i of both holds the index and
\* the codec of one descriptor: the file's own in the trivial and heterogeneous
\* cases, the one chosen from the first file's in the uniform-multi case.
SelectorAlignment ==
    /\ result.returned <=> spc = "done"
    /\ result.returned =>
          /\ Len(result.indices) = Len(all_files_streams)
          /\ Len(result.codecs) = Len(all_files_streams)
          /\ \A i \in 1..Len(all_files_streams) :
                \E d \in Candidates(i) :
                    result.indices[i] = d.index /\ result.codecs[i] = d.codec

\* C2 witness: the heterogeneous case returned for at least two files after
\* asking the Decision Source, and two files got different streams.
SelectorAlignmentWitness ==
    /\ spc = "done"
    /\ IsHeterogeneous
    /\ lastPrompt.asked
    /\ \E i, j \in 1..Len(result.indices) : result.indices[i] # result.indices[j]

\* C6: when more than one stream is shown, numbered 0..n-1, and the answer c is
\* below 0 or at least n, the selection ends in an error and nothing is returned.
OutOfRangeSelectionIsError ==
    (/\ lastPrompt.asked
     /\ Len(lastPrompt.streams) > 1
     /\ (lastPrompt.choice < 0 \/ lastPrompt.choice >= Len(lastPrompt.streams)))
        => (spc = "error" /\ result = NoResult)

-----------------------------------------------------------------------------
(* Properties of the style filter *)

IgnoreFamily(style) ==
    \E tag \in {"Signs", "Caption", "Song", "ED", "OP", "Opening", "Ending", "Karaoke"} :
        \E i \in 1..(Len(style) - Len(tag) + 1) : SubSeq(style, i, i + Len(tag) - 1) = tag

\* C7: whatever the batch and the answer to the style prompt, no line whose style
\* contains an ignore-family substring is in a document clean_tags writes, and no
\* such style is in the ranked list or in the keep-list.
PermanentStyleExclusion ==
    /\ \A j \in 1..Len(styled) : \A i \in 1..Len(styled[j]) :
          ~IgnoreFamily(styled[j][i].style)
    /\ \A r \in 1..Len(sorted_styles) : ~IgnoreFamily(sorted_styles[r][1])
    /\ \A k \in 1..Len(styles_to_keep) : ~IgnoreFamily(styles_to_keep[k])

\* C7 witness: clean_tags is done after an explicit answer that kept a style; the
\* batch had a line of an ignore-family style, and a line of a kept style came out.
PermanentStyleExclusionWitness ==
    /\ tpc = "done"
    /\ styles_to_keep # <<>>
    /\ \E j \in 1..Len(subtitle_list) : \E i \in 1..Len(subtitle_list[j]) :
          IgnoreFamily(subtitle_list[j][i].style)
    /\ \E j \in 1..Len(styled) : styled[j] # <<>>

-----------------------------------------------------------------------------
(* Properties of the staging directories and of the pipeline *)

\* C3: when a run of main has ended, completed or aborted, no staging directory
\* that a stage created is left: each was removed by its cleanup action.
CleanupNeverSkipped ==
    ppc \in {"done", "aborted"} => \A stage \in Stages : temp_dir[stage] # "exists"

\* C4: a cleanup action called once or twice does not raise, and after any call
\* of it the staging directory no longer exists.
CleanupIdempotent ==
    \A stage \in Stages :
        invocations[stage] >= 1 => (raised[stage] = 0 /\ temp_dir[stage] = "removed")

\* C5: a run either syncs all N pairs and completes, or aborts with no synced
\* output file in the output directory.
NoPartialSuccess ==
    /\ ppc = "done" => synced = 1..Pairs
    /\ ppc = "aborted" => synced = {}

=============================================================================
